---- MODULE Spec2Model ----
(***************************************************************************)
(* apt-transport-oci: the apt method that fetches files from an OCI        *)
(* registry.  Strings of the program are sequences of one-character        *)
(* strings, so that prefixes, splits and trims are computed as the Go      *)
(* library computes them.                                                  *)
(***************************************************************************)
EXTENDS Naturals, Sequences, FiniteSets, TLC

VARIABLES
    pu,     \* one call of parseURI: its input and its result
    reg,    \* the registry: the root descriptor and the documents by digest
    bf,     \* one call of buildFileMap: its goroutines, the files map, the error
            \* (and, for each key of files, the goroutine that wrote it last)
    runs,   \* the results of the calls of buildFileMap made so far
    pc,     \* where Method.Run is
    rmsg,   \* MessageReader.message: the message in progress, or nil
    errs,   \* errs of the running call of ReadMessage
    frame,  \* the lines this call of ReadMessage has read, while they begin
            \* a well-formed frame
    ret,    \* msg and err of Run: what the last call of ReadMessage returned
    sent,   \* the messages written since the last call of ReadMessage began
    cache,  \* Method.cacheByOCIRef
    fs,     \* the local files
    req     \* the locals of handleURIAcquire and acquire

drv == <<pc, rmsg, errs, frame, ret, sent, cache, fs, req>>

vars == <<pu, reg, bf, runs, pc, rmsg, errs, frame, ret, sent, cache, fs, req>>

(***************************************************************************)
(* Bounds of the model.                                                    *)
(***************************************************************************)
\* longest free text after the scheme in an input of parseURI
MaxBody == 4
\* most segments of a relative path
MaxSegs == 2
\* most layers of a manifest
MaxLayers == 1
\* most errors one call of ReadMessage collects before it returns
MaxErrs == 1

(***************************************************************************)
(* Go's strings package, on sequences of characters.                       *)
(***************************************************************************)
SeqsUpTo(S, n) == UNION {[1..k -> S] : k \in 0..n}

HasPrefix(s, prefix) ==
    /\ Len(s) >= Len(prefix)
    /\ SubSeq(s, 1, Len(prefix)) = prefix

TrimPrefix(s, prefix) ==
    IF HasPrefix(s, prefix) THEN SubSeq(s, Len(prefix) + 1, Len(s)) ELSE s

HasSuffix(s, suffix) ==
    /\ Len(s) >= Len(suffix)
    /\ SubSeq(s, Len(s) - Len(suffix) + 1, Len(s)) = suffix

TrimSuffix(s, suffix) ==
    IF HasSuffix(s, suffix) THEN SubSeq(s, 1, Len(s) - Len(suffix)) ELSE s

\* strings.Index for a one-character separator: 0 when absent
Index(s, sep) ==
    IF \E i \in 1..Len(s) : s[i] = sep
    THEN CHOOSE i \in 1..Len(s) : s[i] = sep /\ \A j \in 1..(i - 1) : s[j] # sep
    ELSE 0

\* strings.SplitN(s, sep, 2): one part when sep is absent, else two
SplitN2Last(s, sep) ==
    LET i == Index(s, sep) IN
    IF i = 0 THEN <<s>>
    ELSE LET k == CHOOSE n \in 1..Len(s) :
                    s[n] = sep /\ \A j \in (n + 1)..Len(s) : s[j] # sep
         IN <<SubSeq(s, 1, k - 1), SubSeq(s, k + 1, Len(s))>>

SplitN2(s, sep) ==
    LET i == Index(s, sep) IN
    IF i = 0 THEN <<s>>
    ELSE <<SubSeq(s, 1, i - 1), SubSeq(s, i + 1, Len(s))>>

(***************************************************************************)
(* parseURI                                                                *)
(***************************************************************************)
OCI == <<"o", "c", "i", ":", "/", "/">>

ErrMissingProto == "missing oci:// protocol in uri"
ErrMissingTag == "uri is missing repo tag"

parseURINoSchemeCheck(uri) ==
    LET trimmed == TrimPrefix(uri, OCI)
        split == SplitN2(trimmed, ":")
    IN  IF Len(split) < 2
        THEN [repo |-> <<>>, path |-> <<>>, err |-> ErrMissingTag]
        ELSE LET tagAndFile == SplitN2(split[2], "/")
             IN [repo |-> OCI \o split[1] \o <<":">> \o tagAndFile[1] \o <<"/">>,
                 path |-> IF Len(tagAndFile) > 1 THEN tagAndFile[2] ELSE <<>>,
                 err |-> ""]

parseURILastColon(uri) ==
    LET trimmed == TrimPrefix(uri, OCI)
        split == SplitN2Last(trimmed, ":")
    IN  IF trimmed = uri
        THEN [repo |-> <<>>, path |-> <<>>, err |-> ErrMissingProto]
        ELSE IF Len(split) < 2
        THEN [repo |-> <<>>, path |-> <<>>, err |-> ErrMissingTag]
        ELSE LET tagAndFile == SplitN2(split[2], "/")
             IN [repo |-> OCI \o split[1] \o <<":">> \o tagAndFile[1] \o <<"/">>,
                 path |-> IF Len(tagAndFile) > 1 THEN tagAndFile[2] ELSE <<>>,
                 err |-> ""]

parseURINoTagCheck(uri) ==
    LET trimmed == TrimPrefix(uri, OCI)
        split == SplitN2(trimmed, ":")
    IN  IF trimmed = uri
        THEN [repo |-> <<>>, path |-> <<>>, err |-> ErrMissingProto]
        ELSE IF Len(split) < 2
        THEN [repo |-> OCI \o split[1] \o <<"/">>, path |-> <<>>, err |-> ""]
        ELSE LET tagAndFile == SplitN2(split[2], "/")
             IN [repo |-> OCI \o split[1] \o <<":">> \o tagAndFile[1] \o <<"/">>,
                 path |-> IF Len(tagAndFile) > 1 THEN tagAndFile[2] ELSE <<>>,
                 err |-> ""]

parseURINoSlash(uri) ==
    LET trimmed == TrimPrefix(uri, OCI)
        split == SplitN2(trimmed, ":")
    IN  IF trimmed = uri
        THEN [repo |-> <<>>, path |-> <<>>, err |-> ErrMissingProto]
        ELSE IF Len(split) < 2
        THEN [repo |-> <<>>, path |-> <<>>, err |-> ErrMissingTag]
        ELSE LET tagAndFile == SplitN2(split[2], "/")
             IN [repo |-> OCI \o split[1] \o <<":">> \o tagAndFile[1],
                 path |-> IF Len(tagAndFile) > 1 THEN tagAndFile[2] ELSE <<>>,
                 err |-> ""]

parseURI(uri) ==
    LET trimmed == TrimPrefix(uri, OCI)
        split == SplitN2(trimmed, ":")
    IN  IF trimmed = uri
        THEN [repo |-> <<>>, path |-> <<>>, err |-> ErrMissingProto]
        ELSE IF Len(split) < 2
        THEN [repo |-> <<>>, path |-> <<>>, err |-> ErrMissingTag]
        ELSE LET tagAndFile == SplitN2(split[2], "/")
             IN [repo |-> OCI \o split[1] \o <<":">> \o tagAndFile[1] \o <<"/">>,
                 path |-> IF Len(tagAndFile) > 1 THEN tagAndFile[2] ELSE <<>>,
                 err |-> ""]

(***************************************************************************)
(* The inputs parseURI is applied to: a scheme (right, wrong or absent)    *)
(* followed either by any short text over the separators and two ordinary  *)
(* characters, or by host[/namespace][:tag][/path] built from names.       *)
(***************************************************************************)
BodyChars == {":", "/", "a", "."}
Schemes == {<<>>, OCI, <<"o", "c", "i", ":", "/">>, <<"O", "C", "I", ":", "/", "/">>,
            <<"/">> \o OCI}
Names == {<<"a">>, <<"b", "a">>}

RECURSIVE SegPaths(_)
\* the paths of exactly k segments
SegPaths(k) ==
    IF k = 1 THEN Names
    ELSE {p \o <<"/">> \o n : p \in SegPaths(k - 1), n \in Names}

\* relative paths of zero or more /-separated segments
RelPaths == {<<>>} \cup UNION {SegPaths(k) : k \in 1..MaxSegs}

Optional(sep, S) == {<<>>} \cup {<<sep>> \o x : x \in S}

FormBodies ==
    {h \o n \o t \o p : h \in Names, n \in Optional("/", Names),
                        t \in Optional(":", Names), p \in Optional("/", RelPaths)}

URIInputs ==
    {s \o b : s \in Schemes, b \in SeqsUpTo(BodyChars, MaxBody) \cup FormBodies}

\* what a caller may append to a canonical string
JoinPaths ==
    RelPaths \cup {<<".", "/">> \o p : p \in RelPaths} \cup SeqsUpTo(BodyChars, 2)

NoResult == [repo |-> <<>>, path |-> <<>>, err |-> "unset"]

NoParse == [phase |-> "idle", uri |-> <<>>, res |-> NoResult, canon |-> <<>>, rel |-> <<>>]

ParseInputs ==
    {[phase |-> "input", uri |-> u, res |-> NoResult,
      canon |-> <<>>, rel |-> <<>>] : u \in URIInputs}

\* a caller applies parseURI to its input
ParseURICall ==
    /\ pu.phase \in {"input", "joined"}
    /\ pu' = [pu EXCEPT !.phase = IF pu.phase = "input" THEN "parsed" ELSE "reparsed",
                        !.res = parseURI(pu.uri)]

\* a caller appends a relative path to the canonical string it was given
JoinRelativePath ==
    /\ pu.phase = "parsed"
    /\ pu.res.err = ""
    /\ \E p \in JoinPaths :
         pu' = [pu EXCEPT !.phase = "joined", !.uri = pu.res.repo \o p,
                          !.canon = pu.res.repo, !.rel = p, !.res = NoResult]

(***************************************************************************)
(* path.Clean                                                              *)
(***************************************************************************)
RECURSIVE SplitAll(_, _)
SplitAll(s, sep) ==
    LET i == Index(s, sep) IN
    IF i = 0 THEN <<s>>
    ELSE <<SubSeq(s, 1, i - 1)>> \o SplitAll(SubSeq(s, i + 1, Len(s)), sep)

RECURSIVE JoinAll(_, _)
JoinAll(segs, sep) ==
    IF segs = <<>> THEN <<>>
    ELSE IF Len(segs) = 1 THEN segs[1]
    ELSE segs[1] \o <<sep>> \o JoinAll(Tail(segs), sep)

DotDot == <<".", ".">>

RECURSIVE CleanSegs(_, _, _)
CleanSegs(segs, out, rooted) ==
    IF segs = <<>> THEN out
    ELSE LET x == Head(segs)
             rest == Tail(segs)
         IN  IF x = <<>> \/ x = <<".">> THEN CleanSegs(rest, out, rooted)
             ELSE IF x = DotDot
             THEN IF Len(out) > 0 /\ out[Len(out)] # DotDot
                  THEN CleanSegs(rest, SubSeq(out, 1, Len(out) - 1), rooted)
                  ELSE IF rooted THEN CleanSegs(rest, out, rooted)
                  ELSE CleanSegs(rest, Append(out, x), rooted)
             ELSE CleanSegs(rest, Append(out, x), rooted)

Clean(p) ==
    IF p = <<>> THEN <<".">>
    ELSE LET rooted == p[1] = "/"
             body == JoinAll(CleanSegs(SplitAll(p, "/"), <<>>, rooted), "/")
         IN  IF rooted THEN <<"/">> \o body
             ELSE IF body = <<>> THEN <<".">> ELSE body

(***************************************************************************)
(* Descriptors and the documents of a registry.                            *)
(***************************************************************************)
MediaTypeDockerSchema2Manifest == "application/vnd.docker.distribution.manifest.v2+json"
MediaTypeImageManifest == "application/vnd.oci.image.manifest.v1+json"
MediaTypeDockerSchema2ManifestList == "application/vnd.docker.distribution.manifest.list.v2+json"
MediaTypeImageIndex == "application/vnd.oci.image.index.v1+json"
MediaTypeImageConfig == "application/vnd.oci.image.config.v1+json"
MediaTypeApplicationXBinary == "application/x-binary"
MediaTypeApplicationOctetStream == "application/octet-stream"

SHA256 == "sha256"

Digest(alg, enc) == [alg |-> alg, enc |-> enc]

\* an ocispec.Descriptor; title is Annotations["org.opencontainers.image.title"]
Descriptor(mt, dig, size, title) ==
    [mediaType |-> mt, digest |-> dig, size |-> size, title |-> title]

Node(mt, enc) == Descriptor(mt, Digest(SHA256, enc), 0, <<>>)

\* a file pushed as a layer: the blob e1 has 1 byte, the blob e2 has 2
Layer(title, enc) ==
    Descriptor(MediaTypeApplicationOctetStream, Digest(SHA256, enc),
               IF enc = "e1" THEN 1 ELSE 2, title)

\* a JSON document: an index lists manifests, a manifest lists layers; the
\* decoder leaves a list the document lacks empty
Doc(manifests, layers) == [manifests |-> manifests, layers |-> layers]

Titles == {<<>>, <<"a">>, <<".", "/", "a">>, <<"b">>}

LayerLists(titles, encs) == SeqsUpTo({Layer(t, e) : t \in titles, e \in encs}, MaxLayers)

\* the graphs below the root: an index of two manifests; a manifest list of
\* a manifest and a nested index; a manifest alone; an index with a child
\* that is neither index nor manifest
Shapes ==
    {[root |-> Node(MediaTypeImageIndex, "i0"),
      i0 |-> <<Node(MediaTypeImageManifest, "m1"), Node(MediaTypeImageManifest, "m2")>>],
     [root |-> Node(MediaTypeDockerSchema2ManifestList, "i0"),
      i0 |-> <<Node(MediaTypeDockerSchema2Manifest, "m1"), Node(MediaTypeImageIndex, "i1")>>],
     [root |-> Node(MediaTypeImageManifest, "m2"), i0 |-> <<>>],
     [root |-> Node(MediaTypeImageIndex, "i0"),
      i0 |-> <<Node(MediaTypeImageConfig, "m1"), Node(MediaTypeImageManifest, "m2")>>]}

Registry(shape, l1, l2) ==
    [root |-> shape.root,
     docs |-> [i0 |-> Doc(shape.i0, <<>>),
               i1 |-> Doc(<<Node(MediaTypeImageManifest, "m2")>>, <<>>),
               m1 |-> Doc(<<>>, l1),
               m2 |-> Doc(<<>>, l2)]]

Registries ==
    {Registry(sh, l1, l2) : sh \in Shapes,
                            l1 \in LayerLists(Titles \ {<<".", "/", "a">>}, {"e1"}),
                            l2 \in LayerLists(Titles, {"e1", "e2"})}

(***************************************************************************)
(* buildFileMap.  images.Dispatch (containerd v1.5.2) runs the handler of  *)
(* each descriptor in a goroutine of its own and dispatches the children   *)
(* the handler returns in the same way, then waits for all of them; the    *)
(* handlers share the map files, which no lock guards.                     *)
(***************************************************************************)
EmptyMap == [k \in {} |-> k]

MapPut(m, k, v) == [x \in DOMAIN m \cup {k} |-> IF x = k THEN v ELSE m[x]]

ErrFetch == "fetch failed"
ErrJSON == "invalid character looking for beginning of value"

FetchOutcomes == {"", ErrFetch, ErrJSON}

Task(desc) == [desc |-> desc, st |-> "ready", todo |-> <<>>, mixed |-> {}]

NoBuild ==
    [phase |-> "idle", tasks |-> EmptyMap, files |-> EmptyMap, err |-> "",
     last |-> EmptyMap, result |-> [files |-> EmptyMap, err |-> ""]]

\* buildFileMap is called: files is a new map and Dispatch starts on rootDesc
BuildStart(rootDesc) ==
    [phase |-> "running", tasks |-> (<<0>> :> Task(rootDesc)), files |-> EmptyMap,
     err |-> "", last |-> EmptyMap, result |-> [files |-> EmptyMap, err |-> ""]]

FirstErrNone(e) == ""

FirstErr(e) == IF bf.err = "" THEN e ELSE bf.err

\* the handler of an index or manifest list: fetch, read, decode, return the
\* manifests, each of which Dispatch hands to a goroutine of its own
HandleIndex(t) ==
    /\ bf.phase = "running"
    /\ bf.tasks[t].st = "ready"
    /\ bf.tasks[t].desc.mediaType \in {MediaTypeDockerSchema2ManifestList, MediaTypeImageIndex}
    /\ \E out \in FetchOutcomes :
         IF out # ""
         THEN bf' = [bf EXCEPT !.tasks[t].st = "failed", !.err = FirstErr(out)]
         ELSE LET ms == reg.docs[bf.tasks[t].desc.digest.enc].manifests
                  kids == [c \in {t \o <<i>> : i \in 1..Len(ms)} |-> Task(ms[c[Len(c)]])]
              IN bf' = [bf EXCEPT !.tasks =
                          [u \in DOMAIN bf.tasks \cup DOMAIN kids |->
                             IF u \in DOMAIN kids THEN kids[u]
                             ELSE IF u = t THEN [bf.tasks[t] EXCEPT !.st = "done"]
                             ELSE bf.tasks[u]]]
    /\ UNCHANGED <<pu, reg, runs>>

TitledLayers(layers) == SelectSeq(layers, LAMBDA l : l.title # <<>>)

\* the handler of a manifest: fetch, read, decode; the titled layers are then
\* written to files one by one
HandleManifest(t) ==
    /\ bf.phase = "running"
    /\ bf.tasks[t].st = "ready"
    /\ bf.tasks[t].desc.mediaType \in {MediaTypeDockerSchema2Manifest, MediaTypeImageManifest}
    /\ \E out \in FetchOutcomes :
         IF out # ""
         THEN bf' = [bf EXCEPT !.tasks[t].st = "failed", !.err = FirstErr(out)]
         ELSE LET todo == TitledLayers(reg.docs[bf.tasks[t].desc.digest.enc].layers)
              IN bf' = [bf EXCEPT !.tasks[t].st = IF todo = <<>> THEN "done" ELSE "writing",
                                  !.tasks[t].todo = todo]
    /\ UNCHANGED <<pu, reg, runs>>

\* the handler of any other descriptor returns at once
HandleOther(t) ==
    /\ bf.phase = "running"
    /\ bf.tasks[t].st = "ready"
    /\ bf.tasks[t].desc.mediaType \notin
            {MediaTypeDockerSchema2Manifest, MediaTypeImageManifest,
             MediaTypeDockerSchema2ManifestList, MediaTypeImageIndex}
    /\ bf' = [bf EXCEPT !.tasks[t].st = "done"]
    /\ UNCHANGED <<pu, reg, runs>>

\* what two unordered copies into one slot may leave there
Torn(a, b) == [a EXCEPT !.size = b.size, !.title = b.title]

StoredAlone(t, l) == {l}

\* the values the slot may hold once goroutine t has copied l into it: l, or a
\* mix with a value another goroutine was copying into the same slot meanwhile
Stored(t, l) == {l} \cup {Torn(l, x) : x \in bf.tasks[t].mixed}

\* the goroutines, other than t, that are in the same state as t
Beside(t) == {u \in DOMAIN bf.tasks : u # t /\ bf.tasks[u].st = bf.tasks[t].st}

\* files[cleanPath] = l, first half: mapassign finds or makes the slot of
\* cleanPath in files and returns its address
MapAssign(t) ==
    /\ bf.phase = "running"
    /\ bf.tasks[t].st = "writing"
    /\ bf' = [bf EXCEPT !.tasks[t].st = "copying"]
    /\ UNCHANGED <<pu, reg, runs>>

\* two goroutines in mapassign at once: the runtime may stop the process with
\* "fatal error: concurrent map writes"
FatalConcurrentMapWrites(t) ==
    /\ bf.phase = "running"
    /\ bf.tasks[t].st = "writing"
    /\ Beside(t) # {}
    /\ bf' = [bf EXCEPT !.phase = "crashed"]
    /\ UNCHANGED <<pu, reg, runs>>

\* files[cleanPath] = l, second half: l is copied into the slot, which no flag
\* or lock guards; a goroutine still copying into the same slot sees the mix
CopyValue(t) ==
    /\ bf.phase = "running"
    /\ bf.tasks[t].st = "copying"
    /\ LET l == bf.tasks[t].todo[1]
           cleanPath == Clean(l.title)
           same == {u \in Beside(t) : Clean(bf.tasks[u].todo[1].title) = cleanPath}
       IN \E v \in Stored(t, l) :
            bf' = [bf EXCEPT
                     !.files = MapPut(bf.files, cleanPath, v),
                     !.last = MapPut(bf.last, cleanPath, t),
                     !.tasks = [u \in DOMAIN bf.tasks |->
                                  IF u = t
                                  THEN [bf.tasks[t] EXCEPT
                                          !.todo = Tail(bf.tasks[t].todo),
                                          !.mixed = {},
                                          !.st = IF Len(bf.tasks[t].todo) = 1
                                                 THEN "done" ELSE "writing"]
                                  ELSE IF u \in same
                                  THEN [bf.tasks[u] EXCEPT !.mixed = bf.tasks[u].mixed \cup {l}]
                                  ELSE bf.tasks[u]]]
    /\ UNCHANGED <<pu, reg, runs>>

AllDoneRootOnly == bf.tasks[<<0>>].st \in {"done", "failed"}

\* Dispatch waits for every goroutine it started
AllDone == \A t \in DOMAIN bf.tasks : bf.tasks[t].st \in {"done", "failed"}

\* Dispatch returns and buildFileMap returns (nil, err) or (files, nil)
BuildReturn ==
    /\ bf.phase = "running"
    /\ AllDone
    /\ bf' = [bf EXCEPT !.phase = "returned",
                        !.result = IF bf.err # "" THEN [files |-> EmptyMap, err |-> bf.err]
                                   ELSE [files |-> bf.files, err |-> ""]]
    /\ UNCHANGED <<pu, reg, runs>>

TaskIds == {<<0>>, <<0, 1>>, <<0, 2>>, <<0, 3>>, <<0, 2, 1>>}

BuildStep ==
    \/ \E t \in TaskIds : t \in DOMAIN bf.tasks /\ HandleIndex(t)
    \/ \E t \in TaskIds : t \in DOMAIN bf.tasks /\ HandleManifest(t)
    \/ \E t \in TaskIds : t \in DOMAIN bf.tasks /\ HandleOther(t)
    \/ \E t \in TaskIds : t \in DOMAIN bf.tasks /\ MapAssign(t)
    \/ \E t \in TaskIds : t \in DOMAIN bf.tasks /\ CopyValue(t)
    \/ \E t \in TaskIds : t \in DOMAIN bf.tasks /\ FatalConcurrentMapWrites(t)
    \/ BuildReturn

(***************************************************************************)
(* The APT side: messages, the lines of the input stream, MessageReader.   *)
(***************************************************************************)
CodeURIAcquire == 600

FieldURI == <<"U", "R", "I">>
FieldFilename == <<"F", "i", "l", "e", "n", "a", "m", "e">>
FieldTargetRepoURI == <<"T", "a", "r", "g", "e", "t", "-", "R", "e", "p", "o", "-", "U", "R", "I">>

\* a *Message, and the nil pointer
Message(code, desc, fields) == [StatusCode |-> code, Description |-> desc, Fields |-> fields]

NilMessage == [nil |-> TRUE]

\* m[k] of a Go map of strings: the empty string when k is absent
Get(m, k) == IF k \in DOMAIN m THEN m[k] ELSE <<>>

\* an error value; NoErr is the nil error
Err(kind) == [kind |-> kind]

NoErr == Err("")

EOF == Err("EOF")
ErrClosedPipe == Err("io: read/write on closed pipe")
ErrNoProgress == Err("multiple Read calls return no data or error")
ErrShortBuffer == Err("short buffer")
ErrIO == Err("input/output error")

StreamErrors == {EOF, ErrClosedPipe, ErrNoProgress, ErrIO}

\* errors.New of the joined texts: the errors inside are no longer reachable
errorGroup(header, es) == [kind |-> header, errs |-> es]

IsAlways(err, target) == TRUE

\* the text errorGroup builds: the header, then a line break, two spaces and
\* e.Error() for each error
RECURSIVE JoinedErrors(_)
JoinedErrors(es) ==
    IF es = <<>> THEN <<>> ELSE <<"\n", " ", " ", es[1].kind>> \o JoinedErrors(Tail(es))

\* err.Error(), as pieces of text and line breaks
ErrorString(err) ==
    IF "errs" \in DOMAIN err THEN <<err.kind>> \o JoinedErrors(err.errs) ELSE <<err.kind>>

\* errors.Is for errors that wrap nothing
Is(err, target) == err = target

Space == {" ", "\n", "\t", "\r"}

RECURSIVE TrimLeft(_)
TrimLeft(s) == IF s # <<>> /\ Head(s) \in Space THEN TrimLeft(Tail(s)) ELSE s

RECURSIVE TrimRight(_)
TrimRight(s) ==
    IF s # <<>> /\ s[Len(s)] \in Space THEN TrimRight(SubSeq(s, 1, Len(s) - 1)) ELSE s

TrimSpace(s) == TrimRight(TrimLeft(s))

DigitOf ==
    [c \in {"0", "1", "2", "3", "4", "5", "6", "7", "8", "9"} |->
        CASE c = "0" -> 0 [] c = "1" -> 1 [] c = "2" -> 2 [] c = "3" -> 3 [] c = "4" -> 4
          [] c = "5" -> 5 [] c = "6" -> 6 [] c = "7" -> 7 [] c = "8" -> 8 [] c = "9" -> 9]

RECURSIVE Decimal(_)
Decimal(s) == IF s = <<>> THEN 0 ELSE 10 * Decimal(SubSeq(s, 1, Len(s) - 1)) + DigitOf[s[Len(s)]]

\* strconv.ParseUint(s, 10, 64) on the short strings of the model
ParseUint(s) ==
    IF s # <<>> /\ \A i \in 1..Len(s) : s[i] \in DOMAIN DigitOf
    THEN [n |-> Decimal(s), err |-> NoErr]
    ELSE [n |-> 0, err |-> Err("invalid syntax")]

ParseHeader(line0) ==
    LET line == TrimSpace(line0)
        parts == SplitN2(line, " ")
    IN  IF line = <<>> THEN [msg |-> NilMessage, err |-> Err("not a header spec: Empty line")]
        ELSE IF Len(parts) # 2 THEN [msg |-> NilMessage, err |-> Err("not a header spec")]
        ELSE LET code == ParseUint(TrimSpace(parts[1]))
                 desc == TrimSpace(parts[2])
             IN  IF code.err # NoErr
                 THEN [msg |-> NilMessage, err |-> Err("could not parse Status Code")]
                 ELSE IF desc = <<>>
                 THEN [msg |-> NilMessage, err |-> Err("empty description header")]
                 ELSE [msg |-> Message(code.n, desc, EmptyMap), err |-> NoErr]

commitMessageDropped(message, msg) == [old |-> message, message |-> NilMessage]

\* commitMessage with r.message = message: the message returned, and
\* r.message afterwards
commitMessage(message, msg) == [old |-> message, message |-> msg]

FieldPartsLast(line) == SplitN2Last(line, ":")

\* strings.SplitN(line, ":", 2)
FieldParts(line) == SplitN2(line, ":")

\* ReadLine with r.message = message, when ReadString returns in.line and
\* in.err: the message and error returned, and r.message afterwards
ReadLine(message, in) ==
    IF message = NilMessage
    THEN IF in.err # NoErr
         THEN [msg |-> NilMessage, err |-> in.err, message |-> NilMessage]
         ELSE LET h == ParseHeader(in.line)
              IN  IF h.err # NoErr
                  THEN [msg |-> NilMessage, err |-> h.err, message |-> NilMessage]
                  ELSE [msg |-> NilMessage, err |-> NoErr, message |-> h.msg]
    ELSE IF in.err # NoErr
    THEN LET c == commitMessage(message, NilMessage)
         IN  [msg |-> c.old, err |-> in.err, message |-> c.message]
    ELSE LET line == TrimSpace(in.line)
             parts == FieldParts(line)
         IN  IF line = <<>>
             THEN LET c == commitMessage(message, NilMessage)
                  IN  [msg |-> c.old, err |-> NoErr, message |-> c.message]
             ELSE IF Len(parts) # 2
             THEN LET h == ParseHeader(line)
                  IN  IF h.err # NoErr
                      THEN [msg |-> NilMessage, err |-> Err("invalid field format"),
                            message |-> message]
                      ELSE LET c == commitMessage(message, h.msg)
                           IN  [msg |-> c.old,
                                err |-> Err("new message started without old message ending"),
                                message |-> c.message]
             ELSE [msg |-> NilMessage, err |-> NoErr,
                   message |-> [message EXCEPT
                                  !.Fields = MapPut(@, TrimSpace(parts[1]), TrimSpace(parts[2]))]]

ErrorsWhileReading == "Errors while reading message:"

ReadMessageTurnAnyError(es, r) ==
    IF r.err # NoErr
    THEN [ret |-> TRUE, msg |-> r.msg, errs |-> <<>>,
          err |-> IF Len(es) > 0 THEN [kind |-> "Errors while reading message:",
                                       errs |-> Append(es, r.err)]
                  ELSE r.err]
    ELSE IF r.msg # NilMessage
    THEN [ret |-> TRUE, msg |-> r.msg, errs |-> <<>>,
          err |-> IF Len(es) > 0 THEN [kind |-> "Errors while reading message:", errs |-> es]
                  ELSE NoErr]
    ELSE [ret |-> FALSE, msg |-> r.msg, errs |-> es, err |-> NoErr]

\* one turn of the loop of ReadMessage on what ReadLine returned: whether
\* ReadMessage returns, what it returns, and errs afterwards
ReadMessageTurn(es, r) ==
    IF r.err # NoErr
    THEN IF r.msg # NilMessage \/ r.err = EOF
         THEN [ret |-> TRUE, msg |-> r.msg, errs |-> <<>>,
               err |-> IF Len(es) > 0 THEN errorGroup(ErrorsWhileReading, Append(es, r.err))
                       ELSE r.err]
         ELSE [ret |-> FALSE, msg |-> r.msg, errs |-> Append(es, r.err), err |-> NoErr]
    ELSE IF r.msg # NilMessage
    THEN [ret |-> TRUE, msg |-> r.msg, errs |-> <<>>,
          err |-> IF Len(es) > 0 THEN errorGroup(ErrorsWhileReading, es) ELSE NoErr]
    ELSE [ret |-> FALSE, msg |-> r.msg, errs |-> es, err |-> NoErr]

(***************************************************************************)
(* The lines apt may send.                                                 *)
(***************************************************************************)
HeaderURIAcquire == <<"6", "0", "0", " ", "U", "R", "I", " ", "A", "c", "q", "u", "i", "r", "e", "\n">>
HeaderConfiguration == <<"6", "0", "1", " ", "C", "o", "n", "f", "i", "g", "u", "r", "a", "t", "i", "o", "n", "\n">>
BlankLine == <<"\n">>
JunkLine == <<"x", "\n">>

DescURIAcquire == <<"U", "R", "I", " ", "A", "c", "q", "u", "i", "r", "e">>

FieldLine(key, value) == key \o <<":", " ">> \o value \o <<"\n">>

\* canonical reference strings: a name of docker.io, and one with a host
CanonA == OCI \o <<"a", ":", "b", "/">>
CanonHost == OCI \o <<"a", ".", "b", "/", "a", ":", "b", "/">>

\* the relative paths asked for
AskedPaths == {<<>>, <<"a">>, <<".", "/", "a">>}

\* URIs parseURIFields rejects: no scheme, not a Docker reference
BadURIs == {<<"a">>, OCI \o <<"A", ":", "b", "/", "a">>}

\* the URIs made of a canonical string and a relative path
FormedURIs == {CanonA \o p : p \in AskedPaths} \cup {CanonHost \o <<"a">>}

URIValues == FormedURIs \cup BadURIs

FileF == <<"/", "f">>

TargetValues == {CanonA, <<"a", ":", "b", "/">>}

InLines ==
    {HeaderURIAcquire, HeaderConfiguration, BlankLine, JunkLine,
     FieldLine(FieldFilename, FileF)}
    \cup {FieldLine(FieldURI, u) : u \in URIValues}
    \cup {FieldLine(FieldTargetRepoURI, t) : t \in TargetValues}

\* what one call of ReadString('\n') may return
Inputs ==
    {[line |-> l, err |-> NoErr] : l \in InLines}
    \cup {[line |-> <<>>, err |-> e] : e \in StreamErrors}

\* a well-formed frame of an acquire request without Target-Repo-URI
AcquireFrame(u, f) ==
    <<HeaderURIAcquire, FieldLine(FieldURI, u), FieldLine(FieldFilename, f), BlankLine>>

WellFormedFrames == {AcquireFrame(u, FileF) : u \in FormedURIs}

IsPrefix(s, t) == Len(s) <= Len(t) /\ SubSeq(t, 1, Len(s)) = s

\* stands for any lines that do not begin a well-formed frame
OtherFrame == <<<<"?">>>>

\* the lines this call of ReadMessage has read, when in is read after ls
FrameAfter(ls, in) ==
    IF in.err = NoErr /\ \E w \in WellFormedFrames : IsPrefix(Append(ls, in.line), w)
    THEN Append(ls, in.line)
    ELSE OtherFrame

(***************************************************************************)
(* The registry the driver talks to, and references.                       *)
(***************************************************************************)
DockerIO == <<"d", "o", "c", "k", "e", "r", ".", "i", "o">>
Library == <<"l", "i", "b", "r", "a", "r", "y">>
Latest == <<"l", "a", "t", "e", "s", "t">>

\* a refdocker.Named; NoNamed is the nil interface
Named(domain, path, tag) == [domain |-> domain, path |-> path, tag |-> tag]

NoNamed == Named(<<>>, <<>>, <<>>)

RefLower == {"a", "b", "c"}
RefUpper == {"A"}
RefSeparators == {"."}

ValidComponent(c) ==
    /\ c # <<>>
    /\ c[1] \in RefLower
    /\ c[Len(c)] \in RefLower
    /\ \A i \in 1..Len(c) : c[i] \in RefLower \cup RefSeparators
    /\ \A i \in 1..(Len(c) - 1) : ~(c[i] \in RefSeparators /\ c[i + 1] \in RefSeparators)

ValidTag(t) ==
    /\ t # <<>>
    /\ t[1] \in RefLower \cup RefUpper
    /\ \A i \in 1..Len(t) : t[i] \in RefLower \cup RefUpper \cup RefSeparators

\* refdocker.ParseDockerRef on name[:tag] strings: the name is split from the
\* tag, checked, and completed with the default domain, library/ and latest
ParseDockerRef(ref) ==
    IF ref = <<>> THEN [named |-> NoNamed, err |-> Err("invalid reference format")]
    ELSE
    LET comps == SplitAll(ref, "/")
        nt == SplitN2(comps[Len(comps)], ":")
        names == SubSeq(comps, 1, Len(comps) - 1) \o <<nt[1]>>
        tag == IF Len(nt) = 2 THEN nt[2] ELSE Latest
        hasDomain == Len(names) > 1 /\ \E i \in 1..Len(names[1]) : names[1][i] = "."
        path == IF hasDomain THEN Tail(names)
                ELSE IF Len(names) = 1 THEN <<Library>> \o names ELSE names
    IN  IF (\A i \in 1..Len(names) : ValidComponent(names[i])) /\ ValidTag(tag)
        THEN [named |-> Named(IF hasDomain THEN names[1] ELSE DockerIO, JoinAll(path, "/"), tag),
              err |-> NoErr]
        ELSE [named |-> NoNamed, err |-> Err("invalid reference format")]

NamedA == Named(DockerIO, Library \o <<"/", "a">>, <<"b">>)
NamedHost == Named(<<"a", ".", "b">>, <<"a">>, <<"b">>)

SHA512 == "sha512"

\* the index behind a:b lists two manifests that give the title a different
\* blobs, and a child that is no manifest; the blob of the second manifest is
\* empty, has an unexpected media type and a sha512 digest; a.b/a:b does not
\* exist
DriverRegistry ==
    [root |-> Node(MediaTypeImageIndex, "i0"),
     docs |-> [i0 |-> Doc(<<Node(MediaTypeImageManifest, "m1"),
                            Node(MediaTypeDockerSchema2Manifest, "m2"),
                            Node(MediaTypeImageConfig, "m1")>>, <<>>),
               m1 |-> Doc(<<>>, <<Layer(<<".", "/", "a">>, "e1")>>),
               m2 |-> Doc(<<>>, <<Descriptor("text/plain", Digest(SHA512, "e3"), 0, <<"a">>)>>)],
     tags |-> (NamedA :> Node(MediaTypeImageIndex, "i0"))]

\* the sha256 of the bytes a fetch may deliver
BlobHashes == {"e1", "e2"}

(***************************************************************************)
(* MessageWriter: the messages written, each marked with its writer.       *)
(***************************************************************************)
Written(by, code, desc, fields) == [by |-> by, code |-> code, desc |-> desc, fields |-> fields]

When(cond, f) == IF cond THEN f ELSE EmptyMap

\* WriteMessage leaves out the fields whose value is empty
NonEmpty(f) == [k \in {x \in DOMAIN f : f[x] # <<>>} |-> f[k]]

Capabilities(by, version) == Written(by, 100, "Capabilities", "Version" :> version)

Log(by, text) == Written(by, 101, "Log", "Message" :> text)

Status(by, uri, s) ==
    Written(by, 102, "Status", NonEmpty(("URI" :> uri) @@ ("Message" :> s)))

Warning(by, text) == Written(by, 104, "Warning", "Message" :> text)

StartURI(by, uri, resumePoint, size) ==
    Written(by, 200, "URI Start",
            ("URI" :> uri) @@ When(resumePoint # <<>>, "Resume-Point" :> resumePoint)
                           @@ When(size > 0, "Size" :> <<size>>))

FinishURI(by, uri, filename, size, hash) ==
    Written(by, 201, "URI Done",
            ("URI" :> uri) @@ ("Filename" :> filename) @@ ("Size" :> <<size>>)
                           @@ ("SHA256-Hash" :> <<hash>>))

FailedURI(by, uri, message, failReason) ==
    Written(by, 400, "URI Failure",
            IF uri = <<>> THEN "Message" :> message
            ELSE ("URI" :> uri) @@ ("FailReason" :> failReason))

GeneralFailureAsLog(by, text) == Written(by, 101, "Log", "Message" :> text)

GeneralFailure(by, text) == Written(by, 401, "General Failure", "Message" :> text)

\* err.Error(), as one piece of text
ErrorText(err) == <<err>>

(***************************************************************************)
(* parseURIFields and the locals of one request.                           *)
(***************************************************************************)
parseURIFields(msg) ==
    LET target == Get(msg.Fields, FieldTargetRepoURI)
        uri == Get(msg.Fields, FieldURI)
        p == IF target # <<>> THEN [repo |-> target, err |-> ""] ELSE parseURI(uri)
        r == ParseDockerRef(TrimSuffix(TrimPrefix(p.repo, OCI), <<"/">>))
    IN  IF target = <<>> /\ uri = <<>>
        THEN [ociRef |-> NoNamed, title |-> <<>>, err |-> Err("missing field Target-Repo-URI")]
        ELSE IF p.err # ""
        THEN [ociRef |-> NoNamed, title |-> <<>>, err |-> Err(p.err)]
        ELSE IF ~HasPrefix(p.repo, OCI)
        THEN [ociRef |-> NoNamed, title |-> <<>>, err |-> Err("field lacks oci:// prefix")]
        ELSE IF r.err # NoErr
        THEN [ociRef |-> NoNamed, title |-> <<>>,
              err |-> [kind |-> "failed to parse as Docker reference", err |-> r.err]]
        ELSE [ociRef |-> r.named,
              title |-> TrimPrefix(TrimPrefix(uri, p.repo), <<".", "/">>),
              err |-> NoErr]

NoDescriptor == Descriptor("", Digest("", ""), 0, <<>>)

\* a cacheByOCIRef: the fetcher is bound to the reference it was made for
CacheEntry(named, fileMap) == [fetcher |-> named, fileMap |-> fileMap]

NoReq ==
    [msg |-> NilMessage, ociRef |-> NoNamed, title |-> <<>>,
     c |-> CacheEntry(NoNamed, EmptyMap), desc |-> NoDescriptor, started |-> FALSE,
     dig |-> Digest("", ""), err |-> NoErr, outcome |-> "none"]

NoFiles == EmptyMap

LookupAlways(fileMap, title) ==
    [desc |-> IF title \in DOMAIN fileMap THEN fileMap[title] ELSE NoDescriptor, ok |-> TRUE]

\* desc, ok := c.fileMap[title]
Lookup(fileMap, title) ==
    IF title \in DOMAIN fileMap THEN [desc |-> fileMap[title], ok |-> TRUE]
    ELSE [desc |-> NoDescriptor, ok |-> FALSE]

StartedNever == FALSE

\* started = true, right after StartURI
StartedAfterStartURI == TRUE

DigestMismatchNever(desc, dig) == FALSE

\* desc.Digest.Algorithm() == dig.Algorithm() && desc.Digest.Encoded() != dig.Encoded()
DigestMismatch(desc, dig) == desc.digest.alg = dig.alg /\ desc.digest.enc # dig.enc

(***************************************************************************)
(* Method.Run, handleURIAcquire and acquire.  A step runs the code up to   *)
(* the next read of the input or the next call of the registry or the file *)
(* system, whose outcome is not the driver's to choose.                    *)
(***************************************************************************)
ReqURI(r) == Get(r.msg.Fields, FieldURI)

ReqFilename(r) == Get(r.msg.Fields, FieldFilename)

AfterFailureSilent(o, r, e) == o

\* handleURIAcquire when acquire returned (started, err) with err # nil
AfterFailure(o, r, e) ==
    LET o1 == IF ~r.started THEN Append(o, StartURI("handleURIAcquire", ReqURI(r), <<>>, 0))
              ELSE o
    IN  Append(o1, FailedURI("handleURIAcquire", ReqURI(r), ErrorText(e), ErrorText(e)))

Fail(o, r, e) ==
    /\ sent' = AfterFailure(o, r, e)
    /\ req' = [r EXCEPT !.err = e, !.outcome = "failed"]
    /\ pc' = "read"

\* acquire from c.fileMap[title] to the call of c.fetcher.Fetch
LookupAndStart(o, r, c) ==
    LET f == Lookup(c.fileMap, r.title)
        o1 == Append(o, Status("acquire", ReqURI(r), <<"Found descriptor for", r.title, f.desc>>))
        o2 == IF f.desc.mediaType \in {MediaTypeApplicationOctetStream, MediaTypeApplicationXBinary}
              THEN o1
              ELSE Append(o1, Warning("acquire", <<"expected media type", r.title, f.desc.mediaType>>))
    IN  IF ~f.ok
        THEN Fail(o, [r EXCEPT !.c = c],
                  [kind |-> "file not found", in |-> r.ociRef, title |-> r.title])
        ELSE /\ sent' = Append(o2, StartURI("acquire", ReqURI(r), <<>>, f.desc.size))
             /\ req' = [r EXCEPT !.c = c, !.desc = f.desc, !.started = StartedAfterStartURI]
             /\ pc' = "fetch"

\* msg, err := m.r.ReadMessage(): the locals of Run
Returned(msg, err) == [msg |-> msg, err |-> err]

\* no call of ReadMessage has returned since the last one began
NoReturn == Returned(NilMessage, NoErr)

CachedNever(ref) == FALSE

\* x, ok := m.cacheByOCIRef[ociRef.String()]
Cached(ref) == ref \in DOMAIN cache

\* Run writes the capabilities and enters its loop; Capabilities returns
\* nothing, so Run goes on in the same way when the write to the output
\* fails and the message is lost
RunStart ==
    /\ pc = "start"
    /\ \E ok \in BOOLEAN :
         sent' = IF ok THEN <<Capabilities("Run", <<"version">>)>> ELSE <<>>
    /\ pc' = "read"
    /\ UNCHANGED <<pu, reg, bf, runs, rmsg, errs, frame, ret, cache, fs, req>>

\* the messages written since this call of ReadMessage began
Window == IF pc = "read" THEN <<>> ELSE sent

\* the lines this call of ReadMessage has read
Lines == IF pc = "read" THEN <<>> ELSE frame

\* ReadMessage reads a line and stays in its loop
ReadOn ==
    /\ pc \in {"read", "reading"}
    /\ \E in \in Inputs :
         LET r == ReadLine(rmsg, in)
             t == ReadMessageTurn(errs, r)
         IN  /\ ~t.ret
             /\ Len(t.errs) <= MaxErrs
             /\ frame' = FrameAfter(Lines, in)
             /\ rmsg' = r.message
             /\ errs' = t.errs
    /\ ret' = NoReturn
    /\ pc' = "reading"
    /\ sent' = Window
    /\ req' = NoReq
    /\ UNCHANGED <<pu, reg, bf, runs, cache, fs>>

\* ReadMessage returns io.EOF or io.ErrClosedPipe: Run returns
RunReturn ==
    /\ pc \in {"read", "reading"}
    /\ \E in \in Inputs :
         LET r == ReadLine(rmsg, in)
             t == ReadMessageTurn(errs, r)
         IN  /\ t.ret
             /\ Is(t.err, EOF) \/ Is(t.err, ErrClosedPipe)
             /\ frame' = FrameAfter(Lines, in)
             /\ rmsg' = r.message
             /\ ret' = Returned(t.msg, t.err)
    /\ errs' = <<>>
    /\ pc' = "exit"
    /\ sent' = Window
    /\ req' = NoReq
    /\ UNCHANGED <<pu, reg, bf, runs, cache, fs>>

\* ReadMessage returns another error: Run reports it and returns
RunGeneralFailure ==
    /\ pc \in {"read", "reading"}
    /\ \E in \in Inputs :
         LET r == ReadLine(rmsg, in)
             t == ReadMessageTurn(errs, r)
         IN  /\ t.ret
             /\ t.err # NoErr
             /\ ~(Is(t.err, EOF) \/ Is(t.err, ErrClosedPipe))
             /\ ~(Is(t.err, ErrNoProgress) \/ Is(t.err, ErrShortBuffer))
             /\ frame' = FrameAfter(Lines, in)
             /\ rmsg' = r.message
             /\ ret' = Returned(t.msg, t.err)
             /\ sent' = Append(Window, GeneralFailure("Run", <<"Error reading message:", t.err>>))
    /\ errs' = <<>>
    /\ pc' = "exit"
    /\ req' = NoReq
    /\ UNCHANGED <<pu, reg, bf, runs, cache, fs>>

\* ReadMessage returns a message, with no error or one Run passes over: the
\* switch on msg.StatusCode
RunDispatch ==
    /\ pc \in {"read", "reading"}
    /\ \E in \in Inputs :
         LET r == ReadLine(rmsg, in)
             t == ReadMessageTurn(errs, r)
         IN  /\ t.ret
             /\ t.err = NoErr \/ Is(t.err, ErrNoProgress) \/ Is(t.err, ErrShortBuffer)
             /\ frame' = FrameAfter(Lines, in)
             /\ rmsg' = r.message
             /\ ret' = Returned(t.msg, t.err)
             /\ IF t.msg = NilMessage
                THEN pc' = "panic" /\ sent' = Window /\ req' = NoReq
                ELSE IF t.msg.StatusCode = CodeURIAcquire
                THEN pc' = "acquire" /\ sent' = Window /\ req' = [NoReq EXCEPT !.msg = t.msg]
                ELSE /\ pc' = "read"
                     /\ sent' = Append(Window, Log("Run", <<"Unknown message:", t.msg.StatusCode,
                                                           t.msg.Description>>))
                     /\ req' = NoReq
    /\ errs' = <<>>
    /\ UNCHANGED <<pu, reg, bf, runs, cache, fs>>

\* acquire up to the first call it makes outside: parseURIFields, the cache
\* of doCacheStuff and, on a hit, the lookup of the title
AcquireParse ==
    /\ pc = "acquire"
    /\ LET o == Append(sent, Status("acquire", ReqURI(req), <<"Parsing msg:", req.msg>>))
           p == parseURIFields(req.msg)
           r == [req EXCEPT !.ociRef = p.ociRef, !.title = p.title]
       IN  IF p.err # NoErr THEN Fail(o, req, p.err)
           ELSE IF Cached(p.ociRef) THEN LookupAndStart(o, r, cache[p.ociRef])
           ELSE /\ sent' = Append(o, Status("acquire", ReqURI(req),
                                           <<"Creating a resolver for ociRef=", p.ociRef>>))
                /\ req' = r
                /\ pc' = "resolver"
    /\ UNCHANGED <<pu, reg, bf, runs, rmsg, errs, frame, ret, cache, fs>>

\* ociResolver: dockerconfigresolver.New for the domain of the reference
OciResolver ==
    /\ pc = "resolver"
    /\ \E ok \in BOOLEAN :
         IF ~ok
         THEN Fail(sent, req, [kind |-> "failed to create a resolver", ref |-> req.ociRef])
         ELSE /\ sent' = Append(sent, Status("acquire", ReqURI(req),
                                           <<"Creating a fetcher for ociRef=", req.ociRef>>))
              /\ pc' = "fetcher"
              /\ UNCHANGED req
    /\ UNCHANGED <<pu, reg, bf, runs, rmsg, errs, frame, ret, cache, fs>>

\* ociFetcher: resolver.Resolve, then resolver.Fetcher; buildFileMap begins
OciFetcher ==
    /\ pc = "fetcher"
    /\ \E res \in {"ok", "failed to resolve", "no fetcher"} :
         IF res = "ok" /\ req.ociRef \in DOMAIN reg.tags
         THEN /\ sent' = Append(sent, Status("acquire", ReqURI(req),
                                           <<"Building file map for rootDesc=",
                                             reg.tags[req.ociRef]>>))
              /\ bf' = BuildStart(reg.tags[req.ociRef])
              /\ pc' = "build"
              /\ UNCHANGED req
         ELSE /\ Fail(sent, req, [kind |-> IF res = "ok" THEN "failed to resolve" ELSE res,
                                 ref |-> req.ociRef])
              /\ UNCHANGED bf
    /\ UNCHANGED <<pu, reg, runs, rmsg, errs, frame, ret, cache, fs>>

\* buildFileMap runs
AcquireBuild ==
    /\ pc = "build"
    /\ BuildStep
    /\ UNCHANGED drv

\* buildFileMap returned: doCacheStuff stores the entry, acquire goes on
AcquireBuilt ==
    /\ pc = "build"
    /\ bf.phase = "returned"
    /\ bf' = NoBuild
    /\ IF bf.result.err # ""
       THEN Fail(sent, req, Err(bf.result.err)) /\ UNCHANGED cache
       ELSE /\ cache' = MapPut(cache, req.ociRef, CacheEntry(req.ociRef, bf.result.files))
            /\ LookupAndStart(sent, req, CacheEntry(req.ociRef, bf.result.files))
    /\ UNCHANGED <<pu, reg, runs, rmsg, errs, frame, ret, fs>>

\* r, err := c.fetcher.Fetch(ctx, desc)
AcquireFetch ==
    /\ pc = "fetch"
    /\ \E ok \in BOOLEAN :
         IF ok THEN pc' = "create" /\ UNCHANGED <<sent, req>>
         ELSE Fail(sent, req, Err("fetch failed"))
    /\ UNCHANGED <<pu, reg, bf, runs, rmsg, errs, frame, ret, cache, fs>>

\* w, err := os.Create(filename): the file is made, or cut to no bytes
AcquireCreate ==
    /\ pc = "create"
    /\ \E ok \in BOOLEAN :
         IF ok /\ ReqFilename(req) # <<>>
         THEN /\ fs' = MapPut(fs, ReqFilename(req), "none")
              /\ pc' = "copy"
              /\ UNCHANGED <<sent, req>>
         ELSE Fail(sent, req, Err("open failed")) /\ UNCHANGED fs
    /\ UNCHANGED <<pu, reg, bf, runs, rmsg, errs, frame, ret, cache>>

\* io.Copy(mw, r): the bytes go to the file and to the hasher; fs keeps how
\* much of the blob the file holds
AcquireCopy ==
    /\ pc = "copy"
    /\ \/ /\ fs' = MapPut(fs, ReqFilename(req), "part")
          /\ Fail(sent, req, Err("copy failed"))
       \/ \E h \in BlobHashes :
            /\ fs' = MapPut(fs, ReqFilename(req), "all")
            /\ req' = [req EXCEPT !.dig = Digest(SHA256, h)]
            /\ pc' = "closew"
            /\ UNCHANGED sent
    /\ UNCHANGED <<pu, reg, bf, runs, rmsg, errs, frame, ret, cache>>

\* w.Close()
AcquireCloseFile ==
    /\ pc = "closew"
    /\ \E ok \in BOOLEAN :
         IF ok THEN pc' = "closer" /\ UNCHANGED <<sent, req>>
         ELSE Fail(sent, req, Err("close failed"))
    /\ UNCHANGED <<pu, reg, bf, runs, rmsg, errs, frame, ret, cache, fs>>

\* r.Close(), then the digests are compared and FinishURI is written
AcquireVerify ==
    /\ pc = "closer"
    /\ \E ok \in BOOLEAN :
         IF ~ok THEN Fail(sent, req, Err("body close failed"))
         ELSE IF DigestMismatch(req.desc, req.dig)
         THEN Fail(sent, req, [kind |-> "expected digest", title |-> req.title,
                              expected |-> req.desc.digest, got |-> req.dig])
         ELSE /\ sent' = Append(sent, FinishURI("acquire", ReqURI(req), ReqFilename(req),
                                              req.desc.size, req.dig.enc))
              /\ req' = [req EXCEPT !.outcome = "done"]
              /\ pc' = "read"
    /\ UNCHANGED <<pu, reg, bf, runs, rmsg, errs, frame, ret, cache, fs>>

Init ==
    /\ pu = NoParse
    /\ reg = DriverRegistry
    /\ bf = NoBuild
    /\ runs = <<>>
    /\ pc = "start"
    /\ rmsg = NilMessage
    /\ errs = <<>>
    /\ frame = <<>>
    /\ ret = NoReturn
    /\ sent = <<>>
    /\ cache = EmptyMap
    /\ fs = NoFiles
    /\ req = NoReq

Next ==
    \/ RunStart
    \/ ReadOn
    \/ RunReturn
    \/ RunGeneralFailure
    \/ RunDispatch
    \/ AcquireParse
    \/ OciResolver
    \/ OciFetcher
    \/ AcquireBuild
    \/ AcquireBuilt
    \/ AcquireFetch
    \/ AcquireCreate
    \/ AcquireCopy
    \/ AcquireCloseFile
    \/ AcquireVerify

Spec == Init /\ [][Next]_vars

(***************************************************************************)
(* SpecParse: parseURI applied to every input.                             *)
(***************************************************************************)
NoRegistry == Registry([root |-> Node(MediaTypeImageConfig, "m1"), i0 |-> <<>>], <<>>, <<>>)

\* the driver is not running
DrvIdle ==
    /\ pc = "idle"
    /\ rmsg = NilMessage
    /\ errs = <<>>
    /\ frame = <<>>
    /\ ret = NoReturn
    /\ sent = <<>>
    /\ cache = EmptyMap
    /\ fs = NoFiles
    /\ req = NoReq

ParseNext ==
    \/ ParseURICall /\ UNCHANGED <<reg, bf, runs>> /\ UNCHANGED drv
    \/ JoinRelativePath /\ UNCHANGED <<reg, bf, runs>> /\ UNCHANGED drv

ParseInit ==
    /\ pu \in ParseInputs
    /\ reg = NoRegistry
    /\ bf = NoBuild
    /\ runs = <<>>
    /\ DrvIdle

SpecParse == ParseInit /\ [][ParseNext]_vars

(***************************************************************************)
(* SpecBuild: buildFileMap called twice with the same fetcher and root     *)
(* descriptor, over every registry.                                        *)
(***************************************************************************)
BuildInit ==
    /\ pu = NoParse
    /\ reg \in Registries
    /\ bf = BuildStart(reg.root)
    /\ runs = <<>>
    /\ DrvIdle

\* the caller keeps the result and calls buildFileMap again
BuildAgain ==
    /\ bf.phase = "returned"
    /\ Len(runs) = 0
    /\ runs' = Append(runs, bf.result)
    /\ bf' = BuildStart(reg.root)
    /\ UNCHANGED <<pu, reg>>
    /\ UNCHANGED drv

BuildLast ==
    /\ bf.phase = "returned"
    /\ Len(runs) = 1
    /\ runs' = Append(runs, bf.result)
    /\ bf' = NoBuild
    /\ UNCHANGED <<pu, reg>>
    /\ UNCHANGED drv

BuildNext == (BuildStep /\ UNCHANGED drv) \/ BuildAgain \/ BuildLast

SpecBuild == BuildInit /\ [][BuildNext]_vars

(***************************************************************************)
(* Properties of parseURI, checked under SpecParse.                        *)
(***************************************************************************)
BeginsWithScheme(u) == Len(u) >= 6 /\ \A i \in 1..6 : u[i] = OCI[i]

\* C4: for every input oci://host[/namespace]:tag/path, parseURI succeeds with
\* repo = oci://host[/namespace]:tag/ and path = the text after the first slash
\* that follows the tag (empty when nothing follows it), nested paths included.
C4_ParseURIForm ==
    \A h \in Names, n \in Optional("/", Names), t \in Names, p \in RelPaths :
        (pu.phase = "parsed" /\ pu.uri = OCI \o h \o n \o <<":">> \o t \o <<"/">> \o p)
            => pu.res = [repo |-> OCI \o h \o n \o <<":">> \o t \o <<"/">>,
                         path |-> p, err |-> ""]

C4_Witness ==
    /\ pu.phase = "parsed"
    /\ pu.uri = OCI \o <<"a", "/", "b", "a", ":", "a", "/", "b", "a", "/", "a">>
    /\ pu.res.repo = OCI \o <<"a", "/", "b", "a", ":", "a", "/">>
    /\ pu.res.path = <<"b", "a", "/", "a">>

\* C5: for every input that does not begin with oci://, parseURI fails and
\* returns an empty repo and an empty path.
C5_NoSchemeFails ==
    (pu.phase = "parsed" /\ ~BeginsWithScheme(pu.uri))
        => (pu.res.err # "" /\ pu.res.repo = <<>> /\ pu.res.path = <<>>)

C5_Witness ==
    /\ pu.phase = "parsed"
    /\ pu.uri = <<"a", "/", "b", "a", ":", "a", "/", "a">>
    /\ pu.res = [repo |-> <<>>, path |-> <<>>, err |-> ErrMissingProto]

\* C6: the tag is mandatory: an input oci://host or oci://host/path with no
\* colon after the scheme makes parseURI fail with an empty repo and path.
C6_NoTagFails ==
    (/\ pu.phase = "parsed"
     /\ BeginsWithScheme(pu.uri)
     /\ Len(pu.uri) > 6
     /\ \A i \in 7..Len(pu.uri) : pu.uri[i] # ":")
        => (pu.res.err # "" /\ pu.res.repo = <<>> /\ pu.res.path = <<>>)

C6_Witness ==
    /\ pu.phase = "parsed"
    /\ pu.uri = OCI \o <<"a", "/", "b", "a", "/", "a">>
    /\ pu.res = [repo |-> <<>>, path |-> <<>>, err |-> ErrMissingTag]

\* C7: round trip: for a canonical string c returned by a successful parseURI
\* and a relative path p, parseURI(c + p) succeeds and returns exactly (c, p).
C7_RoundTrip ==
    pu.phase = "reparsed"
        => pu.res = [repo |-> pu.canon, path |-> pu.rel, err |-> ""]

C7_Witness ==
    /\ pu.phase = "reparsed"
    /\ pu.canon = OCI \o <<"a", "/", "b", "a", ":", "a", "/">>
    /\ pu.rel = <<"b", "a", "/", "a">>
    /\ pu.res.path = <<"b", "a", "/", "a">>

Range(f) == {f[i] : i \in DOMAIN f}

IsIndex(d) == d.mediaType \in {MediaTypeDockerSchema2ManifestList, MediaTypeImageIndex}

IsManifest(d) == d.mediaType \in {MediaTypeDockerSchema2Manifest, MediaTypeImageManifest}

Kids(d) == IF IsIndex(d) THEN Range(reg.docs[d.digest.enc].manifests) ELSE {}

\* the descriptors the traversal reaches from the root
Reach == {reg.root} \cup Kids(reg.root) \cup UNION {Kids(k) : k \in Kids(reg.root)}

\* the titled layers of the manifests the traversal reaches
ReachLayers ==
    UNION {Range(TitledLayers(reg.docs[d.digest.enc].layers)) : d \in {x \in Reach : IsManifest(x)}}

\* no cleaned title is declared with two different descriptors
Agree == \A x, y \in ReachLayers : Clean(x.title) = Clean(y.title) => x = y

ManifestTasks ==
    {t \in DOMAIN bf.tasks :
        bf.tasks[t].desc.mediaType \in {MediaTypeDockerSchema2Manifest, MediaTypeImageManifest}}

LayersOf(t) == reg.docs[bf.tasks[t].desc.digest.enc].layers

Declares(t, title) == \E i \in 1..Len(LayersOf(t)) : LayersOf(t)[i].title = title

\* the last layer of the manifest of task t whose cleaned title is k
LastLayer(t, k) ==
    LET ls == SelectSeq(TitledLayers(LayersOf(t)), LAMBDA l : Clean(l.title) = k)
    IN ls[Len(ls)]

\* the goroutine whose write under key k came last
LastWriter(k) == bf.last[k]

\* C9: when the root is an index and its two manifests both declare a layer
\* with the same title, the file index built holds exactly one entry for the
\* cleaned title, and it is the layer descriptor of the manifest processed last.
C9_LastManifestWins ==
    (/\ bf.phase = "returned"
     /\ bf.result.err = ""
     /\ ManifestTasks = {<<0, 1>>, <<0, 2>>})
        => \A title \in Titles \ {<<>>} :
              (Declares(<<0, 1>>, title) /\ Declares(<<0, 2>>, title))
                  => /\ Clean(title) \in DOMAIN bf.result.files
                     /\ bf.result.files[Clean(title)]
                            = LastLayer(LastWriter(Clean(title)), Clean(title))

(***************************************************************************)
(* Properties of the driver, checked under Spec.                           *)
(***************************************************************************)
\* the places in sent of the 200 URI Start messages written by by
Starts(by) == {i \in 1..Len(sent) : sent[i].code = 200 /\ sent[i].by = by}

\* a 200 URI Start of handleURIAcquire, with neither Size nor Resume-Point
Synthetic(m) == m.code = 200 /\ m.by = "handleURIAcquire" /\ DOMAIN m.fields = {"URI"}

\* C1: after a 600 URI Acquire request whose acquire failed, acquire returned
\* started = true exactly if acquire itself wrote a 200 URI Start, the driver
\* wrote a 200 URI Start without Size and Resume-Point right before the
\* 400 URI Failure exactly if started = false, and the request got one
\* 200 URI Start in all, the 400 URI Failure being the last message
C1_OneStartPerFailure ==
    req.outcome = "failed" =>
        /\ req.started <=> Starts("acquire") # {}
        /\ ~req.started <=>
              \E i \in 1..(Len(sent) - 1) : Synthetic(sent[i]) /\ sent[i + 1].code = 400
        /\ Cardinality(Starts("acquire") \cup Starts("handleURIAcquire")) = 1
        /\ sent[Len(sent)].code = 400
        /\ Cardinality({i \in 1..Len(sent) : sent[i].code = 400}) = 1

\* a request failed after acquire had written its 200 URI Start
C1_Witness == req.outcome = "failed" /\ req.started /\ req.err = Err("copy failed")

\* the request went through the comparison of the digests: the blob was
\* copied and both the file and the body were closed
Compared ==
    /\ req.outcome # "none"
    /\ req.dig.alg = SHA256
    /\ req.err.kind \notin {"close failed", "body close failed"}

Done(m) == m.code = 201

\* C2: once acquire has compared the digests, if the descriptor's digest is a
\* sha256 other than the computed one, acquire failed with an error that
\* names both digests and no 201 URI Done was written; if the two digests
\* are the same, acquire succeeded and its last message is the 201 URI Done
C2_DigestVerification ==
    Compared =>
        /\ (req.desc.digest.alg = req.dig.alg /\ req.desc.digest.enc # req.dig.enc) =>
              /\ req.outcome = "failed"
              /\ req.err = [kind |-> "expected digest", title |-> req.title,
                            expected |-> req.desc.digest, got |-> req.dig]
              /\ \A i \in 1..Len(sent) : ~Done(sent[i])
        /\ req.desc.digest = req.dig =>
              /\ req.outcome = "done"
              /\ req.err = NoErr
              /\ Done(sent[Len(sent)])
              /\ sent[Len(sent)].fields["SHA256-Hash"] = <<req.dig.enc>>

\* a blob was fetched whose sha256 is not the sha256 the descriptor declares
C2_Witness ==
    /\ Compared
    /\ req.desc.digest.alg = SHA256
    /\ req.desc.digest.enc # req.dig.enc
    /\ req.outcome = "failed"

\* the request has a cache entry, built or found
HasIndex == req.c.fetcher # NoNamed

\* C3: a request whose title is not a key of the file map of its reference
\* failed with "file not found", acquire returned started = false and wrote
\* no 200 URI Start
C3_FileNotFound ==
    (HasIndex /\ req.title \notin DOMAIN req.c.fileMap) =>
        /\ req.outcome = "failed"
        /\ req.err = [kind |-> "file not found", in |-> req.ociRef, title |-> req.title]
        /\ ~req.started
        /\ Starts("acquire") = {}

\* the file map has files, but not the one asked for
C3_Witness ==
    /\ HasIndex
    /\ req.c.fileMap # EmptyMap
    /\ req.title \notin DOMAIN req.c.fileMap
    /\ req.outcome = "failed"

\* the calls of acquire for msg, seen by the first message acquire writes
Dispatches(msg) ==
    {i \in 1..Len(sent) :
        sent[i] = Status("acquire", Get(msg.Fields, FieldURI), <<"Parsing msg:", msg>>)}

\* C10: when the lines read by a call of ReadMessage are '600 URI Acquire',
\* 'URI: <c><p>', 'Filename: <f>' and a blank line, with c a canonical string
\* and p a relative path, the call returned one message, with code 600 and
\* the fields URI = <c><p> (all the text after the first colon) and
\* Filename = <f>; acquire was called once, with that message, and the title
\* it works on is p without a leading ./
C10_FrameDispatched ==
    \A c \in {CanonA, CanonHost} : \A p \in AskedPaths \cup {<<"a">>} :
        (c \o p \in FormedURIs /\ frame = AcquireFrame(c \o p, FileF)) =>
            LET msg == Message(CodeURIAcquire, DescURIAcquire,
                               (FieldURI :> c \o p) @@ (FieldFilename :> FileF))
            IN  /\ pc \notin {"reading", "exit", "panic"}
                /\ req.msg = msg
                /\ pc # "acquire" =>
                      /\ Cardinality(Dispatches(msg)) = 1
                      /\ req.title = TrimPrefix(p, <<".", "/">>)
                      /\ req.ociRef # NoNamed

\* the frame asked for ./a of a:b, and acquire is about to fetch a
C10_Witness ==
    /\ frame = AcquireFrame(CanonA \o <<".", "/", "a">>, FileF)
    /\ pc = "fetch"
    /\ req.title = <<"a">>


\* the 401 General Failure messages written
GeneralFailures == {i \in 1..Len(sent) : sent[i].code = 401}

\* err is what ReadMessage returns when the read that made it return hit the
\* end of the stream: io.EOF or io.ErrClosedPipe, alone or as the last line
\* of the errors collected by this call
EndedBy(err) ==
    \/ err \in {EOF, ErrClosedPipe}
    \/ /\ "errs" \in DOMAIN err
       /\ err.errs[Len(err.errs)] \in {EOF, ErrClosedPipe}

\* C11: when the call of ReadMessage returned because the input stream ended
\* (end of input or closed pipe, between messages or inside one, whatever
\* errors the call collected before), Run has returned and no
\* 401 General Failure was written
C11_CleanEnd ==
    EndedBy(ret.err) => pc = "exit" /\ GeneralFailures = {}

\* C12: after a 600 URI Acquire request whose acquire returned an error, the
\* driver has written one 400 URI Failure, as its last message, has called
\* acquire for the request once, and is back at the top of its loop with
\* no message in progress and no error pending, where a next line can be
\* read
C12_FailureNotFatal ==
    req.outcome = "failed" =>
        /\ sent[Len(sent)].code = 400
        /\ Cardinality({i \in 1..Len(sent) : sent[i].code = 400}) = 1
        /\ Cardinality(Dispatches(req.msg)) = 1
        /\ GeneralFailures = {}
        /\ pc = "read"
        /\ rmsg = NilMessage /\ errs = <<>>
        /\ \E in \in Inputs : ~ReadMessageTurn(errs, ReadLine(rmsg, in)).ret

\* a request failed at os.Create, and Run is about to read again
C12_Witness ==
    /\ req.outcome = "failed"
    /\ pc = "read"
    /\ req.err = Err("open failed")

\* no step removes an entry of the cache or changes it, and the only change
\* of the cache is a new entry for the reference of the request in progress
EntriesKept ==
    /\ \A k \in DOMAIN cache : k \in DOMAIN cache' /\ cache'[k] = cache[k]
    /\ cache' # cache =>
          /\ pc = "build"
          /\ req.ociRef \notin DOMAIN cache
          /\ DOMAIN cache' = DOMAIN cache \cup {req.ociRef}

\* a request that is at the resolver, at the resolution of its reference or
\* in buildFileMap has a reference without entry; a request past them works
\* on the entry the cache holds for its reference
HitOrBuild ==
    /\ pc \in {"resolver", "fetcher", "build"} => req.ociRef \notin DOMAIN cache
    /\ (HasIndex /\ pc # "acquire") =>
          /\ req.ociRef \in DOMAIN cache
          /\ req.c = cache[req.ociRef]
    /\ \A k \in DOMAIN cache : cache[k].fetcher = k

\* C13: an entry stored in the cache for a reference is never removed,
\* replaced or changed; every later request for that reference works on the
\* stored file map and fetcher without creating a resolver, resolving the
\* reference or calling buildFileMap, so buildFileMap succeeds at most once
\* per reference
C13_ReferenceCache == []HitOrBuild /\ [][EntriesKept]_vars

\* a request found its reference in the cache and is about to fetch: acquire
\* wrote no 'Creating a resolver' for it
C13_Witness ==
    /\ pc = "fetch"
    /\ req.ociRef \in DOMAIN cache
    /\ \A i \in 1..Len(sent) :
          sent[i] # Status("acquire", ReqURI(req),
                           <<"Creating a resolver for ociRef=", req.ociRef>>)

\* the three errors of parseURIFields the claim tells apart
MissingField(err) == err = Err("missing field Target-Repo-URI")

NotAReference(err) == err # NoErr /\ err.kind = "failed to parse as Docker reference"

LacksPrefix(err) == err # NoErr /\ ~MissingField(err) /\ ~NotAReference(err)

\* C14: for every message dispatched to acquire, parseURIFields returns an
\* error when the URI field is missing, whether or not Target-Repo-URI is
\* there; another error when the repository URI (Target-Repo-URI, or else
\* the URI field) does not begin with oci://; and a third one when the
\* repository string is not a valid reference
C14_FieldErrors ==
    pc = "acquire" =>
        LET uri == Get(req.msg.Fields, FieldURI)
            target == Get(req.msg.Fields, FieldTargetRepoURI)
            given == IF target # <<>> THEN target ELSE uri
            repo == IF target # <<>> THEN target ELSE parseURI(uri).repo
            ref == TrimSuffix(TrimPrefix(repo, OCI), <<"/">>)
            p == parseURIFields(req.msg)
        IN  /\ uri = <<>> => MissingField(p.err)
            /\ (uri # <<>> /\ ~HasPrefix(given, OCI)) => LacksPrefix(p.err)
            /\ (uri # <<>> /\ HasPrefix(repo, OCI) /\ ParseDockerRef(ref).err # NoErr) =>
                  NotAReference(p.err)

NewMessageStarted == Err("new message started without old message ending")

\* what ReadString returns for a line
LineRead(l) == [line |-> l, err |-> NoErr]

\* err is the 'new message started' error, alone or as the last line of the
\* errors collected by the call
StartedAnew(err) ==
    \/ err = NewMessageStarted
    \/ "errs" \in DOMAIN err /\ err.errs[Len(err.errs)] = NewMessageStarted

\* C15: with a message in progress, a header line makes ReadMessage return
\* the message in progress, with the fields read so far, and the
\* 'new message started without old message ending' error; the message of
\* the header is then the one in progress, without fields, so that a field
\* line read next is added to it and a blank line read next makes
\* ReadMessage return it
C15_ConcurrentHeader ==
    /\ (pc = "reading" /\ rmsg # NilMessage) =>
        \A h \in {HeaderURIAcquire, HeaderConfiguration} :
            LET r == ReadLine(rmsg, LineRead(h))
                t == ReadMessageTurn(errs, r)
                new == ParseHeader(h).msg
                f == ReadLine(r.message, LineRead(FieldLine(FieldFilename, FileF)))
                b == ReadLine(r.message, LineRead(BlankLine))
            IN  /\ t.ret
                /\ t.msg = rmsg
                /\ StartedAnew(t.err)
                /\ new # NilMessage /\ new.Fields = EmptyMap
                /\ r.message = new
                /\ f.message = [new EXCEPT !.Fields = FieldFilename :> FileF]
                /\ f.msg = NilMessage /\ f.err = NoErr
                /\ b.msg = new /\ b.err = NoErr
    /\ StartedAnew(ret.err) =>
          /\ ret.msg # NilMessage
          /\ rmsg # NilMessage /\ rmsg.Fields = EmptyMap

\* ReadMessage returned a message with a field because a header came next
C15_Witness ==
    /\ ret.err = NewMessageStarted
    /\ ret.msg # NilMessage
    /\ ret.msg.Fields # EmptyMap
    /\ rmsg = Message(601, <<"C", "o", "n", "f", "i", "g", "u", "r", "a", "t", "i", "o", "n">>, EmptyMap)

\* err is none of the kinds Run tests for
OtherError(err) == err \notin {NoErr, EOF, ErrClosedPipe, ErrNoProgress, ErrShortBuffer}

\* C16: when ReadMessage returned an error that is not io.EOF,
\* io.ErrClosedPipe, io.ErrNoProgress or io.ErrShortBuffer, Run has written
\* one 401 General Failure, with the text of the error, as its last message,
\* has not called acquire for the message returned, and has returned
C16_GeneralFailure ==
    OtherError(ret.err) =>
        /\ pc = "exit"
        /\ Cardinality(GeneralFailures) = 1
        /\ sent[Len(sent)] = GeneralFailure("Run", <<"Error reading message:", ret.err>>)
        /\ req = NoReq
        /\ \A i \in 1..Len(sent) : sent[i].by = "Run" /\ sent[i].code \in {100, 401}

\* ReadMessage returned a whole 600 message together with the errors it had
\* collected before the header
C16_Witness ==
    /\ "errs" \in DOMAIN ret.err
    /\ ret.msg # NilMessage
    /\ ret.msg.StatusCode = CodeURIAcquire
    /\ FieldURI \in DOMAIN ret.msg.Fields
    /\ pc = "exit"

\* the errors of ParseHeader and ReadLine about the form of a line
FramingKinds ==
    {"not a header spec: Empty line", "not a header spec", "could not parse Status Code",
     "empty description header", "invalid field format",
     "new message started without old message ending"}

\* err is an error about the form of a line, or the errors a call of
\* ReadMessage collected with such an error among them
Framing(err) ==
    \/ err.kind \in FramingKinds
    \/ "errs" \in DOMAIN err /\ \E i \in 1..Len(err.errs) : err.errs[i].kind \in FramingKinds

C18_NoOp ==
    ret.err \in {ErrNoProgress, ErrShortBuffer} =>
        /\ pc = "read"
        /\ req = NoReq
        /\ \A i \in 1..Len(sent) : sent[i].code \notin {400, 401}

\* what ReadString returns at the end of the input
AtEOF == [line |-> <<>>, err |-> EOF]

\* io.EOF, alone or as the last line of the errors collected by the call
EndOfInput(err) ==
    \/ err = EOF
    \/ "errs" \in DOMAIN err /\ err.errs[Len(err.errs)] = EOF

\* with a message in progress, the end of the input makes ReadMessage return
\* that message and io.EOF (after the errors collected by the call, if any),
\* and leaves no message in progress
PartialAtEOF ==
    (pc = "reading" /\ rmsg # NilMessage) =>
        LET r == ReadLine(rmsg, AtEOF)
            t == ReadMessageTurn(errs, r)
        IN  /\ t.ret
            /\ t.msg = rmsg
            /\ r.message = NilMessage
            /\ t.err = IF errs = <<>> THEN EOF
                       ELSE errorGroup(ErrorsWhileReading, Append(errs, EOF))

\* Run returned without calling acquire for a message cut by the end of the
\* input
NotDispatched ==
    (ret.msg # NilMessage /\ EndOfInput(ret.err)) =>
        /\ pc = "exit"
        /\ rmsg = NilMessage
        /\ req = NoReq
        /\ \A i \in 1..Len(sent) : sent[i].by = "Run"

\* the step in which ReadMessage returns such a message leaves the files as
\* they are
FilesKept ==
    (ret' # ret /\ ret'.msg # NilMessage /\ EndOfInput(ret'.err)) => fs' = fs

\* C19: at the end of the input inside a message, ReadMessage returns the
\* partial message with io.EOF and leaves no message in progress; Run does
\* not call acquire for that message, and no file is created or written
C19_TruncatedNotDispatched == [](PartialAtEOF /\ NotDispatched) /\ [][FilesKept]_vars

\* a 600 message with its URI and Filename fields, cut by the end of the
\* input before its blank line, after a file had been written
C19_Witness ==
    /\ ret.err = EOF
    /\ ret.msg # NilMessage
    /\ ret.msg.StatusCode = CodeURIAcquire
    /\ DOMAIN ret.msg.Fields = {FieldURI, FieldFilename}
    /\ pc = "exit"
    /\ fs # NoFiles

\* the 201 URI Done and 400 URI Failure messages written
Terminals == {i \in 1..Len(sent) : sent[i].code \in {201, 400}}

AllStarts == {i \in 1..Len(sent) : sent[i].code = 200}

\* the request got one 200 URI Start and, after it and as the last message,
\* one 201 URI Done or 400 URI Failure
Answered ==
    /\ Cardinality(AllStarts) = 1
    /\ Cardinality(Terminals) = 1
    /\ \A i \in AllStarts : \A j \in Terminals : i < j
    /\ Terminals = {Len(sent)}

\* a message was dispatched to handleURIAcquire
Dispatched == req.msg # NilMessage

\* the Go runtime has stopped the process inside buildFileMap
Stopped == pc = "build" /\ bf.phase = "crashed"

\* a dispatched request never has two 200 URI Start or two terminal messages,
\* and it is answered when the driver is no longer working on it: when Run
\* is back at its loop, or the process has stopped
OneAnswer ==
    Dispatched =>
        /\ Cardinality(AllStarts) <= 1
        /\ Cardinality(Terminals) <= 1
        /\ pc \notin {"reading", "exit"}
        /\ (pc = "read" \/ Stopped) => Answered

\* nothing is read from the input while a request is worked on
NoReadInside ==
    (Dispatched /\ pc # "read") => UNCHANGED <<rmsg, errs, frame, ret>>

\* C20: every message dispatched to handleURIAcquire is answered by one
\* 200 URI Start followed by one 201 URI Done or one 400 URI Failure, never
\* both, and the next line of the input is read only after that
C20_RequestAtATime == []OneAnswer /\ [][NoReadInside]_vars

\* the errors of acquire after its 200 URI Start
AfterStart ==
    {"fetch failed", "open failed", "copy failed", "close failed", "body close failed",
     "expected digest"}

\* this step writes the 201 URI Done
WritesDone == Len(sent') = Len(sent) + 1 /\ Done(sent'[Len(sent')])

\* a 201 URI Done is written by the step that closes the body, when the file
\* holds the whole blob and was closed, and the digest of the descriptor is
\* not a sha256 other than the one computed; no step removes a file, and a
\* step that fails the request changes no file but the one io.Copy writes
DoneLast ==
    /\ WritesDone =>
          /\ pc = "closer"
          /\ req.started
          /\ ReqFilename(req) \in DOMAIN fs /\ fs[ReqFilename(req)] = "all"
          /\ req.dig.alg = SHA256
          /\ ~(req.desc.digest.alg = req.dig.alg /\ req.desc.digest.enc # req.dig.enc)
          /\ fs' = fs
    /\ \A f \in DOMAIN fs : f \in DOMAIN fs'
    /\ (req'.outcome = "failed" /\ pc # "copy") => fs' = fs

\* a request that failed after its 200 URI Start failed with started = true
\* and without 201 URI Done, and its file is as the failed step left it:
\* part of the blob after a failed copy, all of it after a failed close or
\* a digest mismatch
FailedAfterStart ==
    (req.outcome = "failed" /\ Starts("acquire") # {}) =>
        /\ req.err.kind \in AfterStart
        /\ req.started
        /\ \A i \in 1..Len(sent) : ~Done(sent[i])
        /\ req.err.kind = "copy failed" => fs[ReqFilename(req)] = "part"
        /\ req.err.kind \in {"close failed", "body close failed", "expected digest"} =>
              fs[ReqFilename(req)] = "all"

\* C21: 201 URI Done is written only after the fetch, the creation of the
\* file, the copy and both Close calls succeeded and the digest comparison
\* did not fail; a request that fails in one of these steps returns
\* started = true, gets no 201 URI Done, and its file stays as written
C21_DoneOnlyAfterAll == []FailedAfterStart /\ [][DoneLast]_vars

\* the file could not be closed: it holds the whole blob and the request
\* failed
C21_Witness ==
    /\ req.outcome = "failed"
    /\ req.err = Err("close failed")
    /\ fs[ReqFilename(req)] = "all"

(***************************************************************************)
(* More properties of buildFileMap, checked under SpecBuild.               *)
(***************************************************************************)
\* C22: when buildFileMap has returned a mapping, the descriptor of every
\* entry has a title that is not empty and whose cleaned path is the key of
\* the entry, and is a layer of a manifest the traversal reaches from the
\* root
C22_FileIndexInvariant ==
    (bf.phase = "returned" /\ bf.result.err = "") =>
        \A k \in DOMAIN bf.result.files :
            /\ bf.result.files[k].title # <<>>
            /\ Clean(bf.result.files[k].title) = k
            /\ bf.result.files[k] \in ReachLayers

(***************************************************************************)
(* More properties of the driver, checked under Spec.                      *)
(***************************************************************************)
\* buildFileMap returns the first error of a handler and no mapping as soon
\* as the fetch or the decoding of one index or manifest failed
ErrorNoMapping ==
    /\ (\E t \in DOMAIN bf.tasks : bf.tasks[t].st = "failed") => bf.err \in {ErrFetch, ErrJSON}
    /\ (bf.phase = "returned" /\ bf.err # "") =>
          bf.result = [files |-> EmptyMap, err |-> bf.err]

\* the request failed in buildFileMap
BuildFailed ==
    /\ req.outcome = "failed"
    /\ req.err \in {Err(ErrFetch), Err(ErrJSON)}
    /\ Starts("acquire") = {}

\* after a request that failed in buildFileMap the cache has no entry for
\* its reference
NotCached == BuildFailed => req.ociRef \notin DOMAIN cache

\* the step after buildFileMap returned an error fails the request with that
\* error and leaves the cache as it is; a request whose reference has no
\* entry goes to the resolver
FailsUncached ==
    /\ (pc = "build" /\ bf.phase = "returned" /\ bf.result.err # "") =>
          /\ req'.outcome = "failed"
          /\ req'.err = Err(bf.result.err)
          /\ cache' = cache
    /\ (pc = "acquire" /\ parseURIFields(req.msg).err = NoErr
          /\ parseURIFields(req.msg).ociRef \notin DOMAIN cache) => pc' = "resolver"

\* C23: when the fetch or the decoding of an index or manifest fails during
\* the traversal, buildFileMap returns that error and no mapping,
\* doCacheStuff and the request fail with it, the cache is left unchanged
\* and without entry for the reference, and a later request for the
\* reference goes through the resolver and buildFileMap again
C23_BuildFailure == [](ErrorNoMapping /\ NotCached) /\ [][FailsUncached]_vars

\* a manifest could not be decoded: the request failed and nothing is cached
C23_Witness ==
    /\ BuildFailed
    /\ req.err = Err(ErrJSON)
    /\ cache = EmptyMap
    /\ sent[Len(sent)].code = 400

\* C24: the 400 URI Failure of a failed request has the text of the error
\* in its Message field and in its FailReason field, and has no
\* Transient-Failure field, whether the URI field of the request is empty
\* or not
C24_FailureFields ==
    req.outcome = "failed" =>
        \A i \in 1..Len(sent) :
            sent[i].code = 400 =>
                /\ "Message" \in DOMAIN sent[i].fields
                /\ "FailReason" \in DOMAIN sent[i].fields
                /\ sent[i].fields["Message"] = ErrorText(req.err)
                /\ sent[i].fields["FailReason"] = ErrorText(req.err)
                /\ "Transient-Failure" \notin DOMAIN sent[i].fields

\* Run is at its first statement and the 100 Capabilities does not reach the
\* output
CapabilitiesLost == pc = "start" /\ \A i \in 1..Len(sent') : sent'[i].code # 100

\* C25: when the 100 Capabilities cannot be written, Run writes a
\* 401 General Failure and returns instead of entering its loop
C25_GeneralError ==
    [][CapabilitiesLost => (pc' = "exit" /\ \E i \in 1..Len(sent') : sent'[i].code = 401)]_vars

\* the text has no line break
OneLine(text) == \A i \in 1..Len(text) : text[i] # "\n"

\* C26: every message written is one frame of a header line, 'Key: Value'
\* lines and one blank line: the text the driver puts in the Message field
\* of a 401 General Failure and in the Message or FailReason field of a
\* 400 URI Failure, the collected read errors included, has no line break
C26_WellFormedFrames ==
    \A i \in 1..Len(sent) :
        /\ sent[i].code = 401 =>
              OneLine(<<"Error reading message: ">> \o ErrorString(ret.err))
        /\ sent[i].code = 400 => OneLine(ErrorString(req.err))

\* what ReadString may return, io.ErrShortBuffer included
Outcomes == Inputs \cup {[line |-> <<>>, err |-> ErrShortBuffer]}

\* whatever ReadString returns next, a call of ReadMessage that returns no
\* message returns an error that is none of io.ErrNoProgress and
\* io.ErrShortBuffer, for which Run would go on to the dispatch
NilOnlyWithFatal ==
    pc \in {"read", "reading"} =>
        \A in \in Outcomes :
            LET t == ReadMessageTurn(IF pc = "read" THEN <<>> ELSE errs,
                                     ReadLine(rmsg, in))
            IN  (t.ret /\ t.msg = NilMessage) =>
                    /\ t.err # NoErr
                    /\ ~(Is(t.err, ErrNoProgress) \/ Is(t.err, ErrShortBuffer))

\* C27: Run never reaches 'switch msg.StatusCode' with a nil message: when
\* ReadMessage returned no message, it returned io.EOF, alone or after the
\* errors it collected, and Run has returned; every request acquire works
\* on has a message
C27_DispatchNonNil ==
    /\ pc # "panic"
    /\ NilOnlyWithFatal
    /\ (ret.msg = NilMessage /\ ret # NoReturn) => (pc = "exit" /\ EndOfInput(ret.err))
    /\ pc \notin {"start", "read", "reading", "exit"} => req.msg # NilMessage

\* no progress between two messages, then the end of the input: ReadMessage
\* returned no message, and Run has returned
C27_Witness ==
    /\ ret.msg = NilMessage
    /\ ret.err = errorGroup(ErrorsWhileReading, <<ErrNoProgress, EOF>>)
    /\ pc = "exit"

(***************************************************************************)
(* The handlers of sibling manifests, checked under SpecBuild.             *)
(***************************************************************************)
\* the manifests the traversal reaches declare the same set of titled layers
SameLayers ==
    \A x, y \in {d \in Reach : IsManifest(d)} :
        Range(TitledLayers(reg.docs[x.digest.enc].layers))
            = Range(TitledLayers(reg.docs[y.digest.enc].layers))

\* the goroutines that are in files[cleanPath] = l
Writers == {t \in DOMAIN bf.tasks : bf.tasks[t].st \in {"writing", "copying"}}

\* C28: when the manifests reached from the root declare the same titled
\* layers, two calls of buildFileMap that return a mapping return the same
\* one, whatever the order of the handlers, and at no time are two handlers
\* writing the map files: at most one goroutine is in the assignment, and
\* the runtime never finds two
C28_OrderIndependent ==
    SameLayers =>
        /\ (Len(runs) = 2 /\ runs[1].err = "" /\ runs[2].err = "") =>
              runs[1].files = runs[2].files
        /\ Cardinality(Writers) <= 1
        /\ bf.phase # "crashed"
====
